---------------------------- MODULE Spec2Model ----------------------------
(***************************************************************************)
(* Model of client/lib/fifo/fifo_unix.go: New, Open, Remove, IsClosedErr   *)
(* and the shared routine openFifo, run by several callers against one     *)
(* directory of a POSIX filesystem.                                        *)
(*                                                                         *)
(* openFifo is three system calls (stat, mkfifo, open); every one is an    *)
(* atomic step, and steps of different callers interleave freely.  The     *)
(* system calls themselves are modelled by what POSIX says of them on a    *)
(* FIFO.  The process umask is assumed not to clear owner bits.            *)
(***************************************************************************)
EXTENDS Integers, Sequences, FiniteSets, TLC

(* ------------------------------ bounds -------------------------------- *)
\* Number of callers; each performs one call and may then close its handle.
NumProcs == 2
\* Depth of error wrapping drawn as input of IsClosedErr.
MaxWrap == 2

Procs == 1..NumProcs
\* openFifo and Remove touch only the path they are given: one path name.
Paths == {1}

(* --------------------------- flag arithmetic -------------------------- *)
O_RDONLY == 0
O_WRONLY == 1
O_RDWR == 2
O_ACCMODE == 3
O_CREAT == 64
O_NONBLOCK == 2048
\* os.ModePerm, 0777
ModePerm == 511
\* 0600, the perm argument of New and Open
FifoPerm == 384

RECURSIVE BitAnd(_, _)
BitAnd(a, b) ==
    IF a = 0 \/ b = 0 THEN 0
    ELSE (a % 2) * (b % 2) + 2 * BitAnd(a \div 2, b \div 2)

BitOr(a, b) == a + b - BitAnd(a, b)

\* a & ^b
AndNot(a, b) == a - BitAnd(a, b)

(* ------------------------------- errors ------------------------------- *)
\* An error value is the chain of its layers, outermost first; nil is <<>>.
Layer(t, s, p) == [t |-> t, s |-> s, path |-> p]

Nil == << >>

Errno(e) == << Layer("Errno", e, 0) >>

PathError(op, p, cause) == << Layer("PathError", op, p) >> \o cause

\* errors.Wrapf(err, "error creating fifo %v", fn); Wrapf of nil is nil.
Wrapf(cause, msg, p) ==
    IF cause = Nil THEN Nil ELSE << Layer("Wrapf", msg, p) >> \o cause

\* os.ErrClosed
ErrClosed == << Layer("errorString", "file already closed", 0) >>

\* os.underlyingError: strips one *PathError.
underlyingError(err) ==
    IF err # Nil /\ Head(err).t = "PathError" THEN Tail(err) ELSE err

IsNotExist(err) == underlyingError(err) = Errno("ENOENT")

IsExist(err) == underlyingError(err) \in {Errno("EEXIST"), Errno("ENOTEMPTY")}

\* IsClosedErr looking for the path error under any number of wrappers.
IsClosedErr_unwrapping(err) ==
    \E k \in 1..Len(err) :
        /\ err[k].t = "PathError"
        /\ SubSeq(err, k + 1, Len(err)) = ErrClosed

IsClosedErr(err) ==
    LET ok == err # Nil /\ Head(err).t = "PathError"
    IN  IF ok THEN Tail(err) = ErrClosed ELSE FALSE

(* ------------------------------- state -------------------------------- *)
VARIABLES
    fs,       \* path -> directory entry (inode, type, permission bits)
    dirOK,    \* the directory is searchable and writable by the callers
    nextIno,  \* next unused inode number
    call,     \* caller -> its call: position, arguments, result, history
    lastRm,   \* path -> inode taken away by the last successful Remove, or 0
    cerr,     \* input of the last IsClosedErr evaluation
    cres      \* its result

vars == << fs, dirOK, nextIno, call, lastRm, cerr, cres >>

NoEntry == [ino |-> 0, type |-> "none", mode |-> 0]

NoHandle == [ino |-> 0, type |-> "none", acc |-> 0, open |-> FALSE]

IdleCall ==
    [pc |-> "idle", op |-> "none", path |-> 0, flag |-> 0, perm |-> 0,
     ctx |-> FALSE, cancelAt |-> "", err |-> Nil, h |-> NoHandle,
     statRes |-> "", mk |-> "", opn |-> ""]

\* Entries a path may hold before any call: nothing, a FIFO made by someone
\* else with other permission bits, or a regular file.
InitEntries(p) ==
    { NoEntry,
      [ino |-> p, type |-> "fifo", mode |-> 420],
      [ino |-> p, type |-> "file", mode |-> 420] }

Init ==
    /\ fs \in [Paths -> UNION {InitEntries(p) : p \in Paths}]
    /\ \A p \in Paths : fs[p] \in InitEntries(p)
    /\ dirOK = TRUE
    /\ nextIno = 2
    /\ call = [i \in Procs |-> IdleCall]
    /\ lastRm = [p \in Paths |-> 0]
    /\ cerr = Nil
    /\ cres = FALSE

(* ---------------------------- system calls ---------------------------- *)
\* A probe that never sees the entry.
Stat_blind(fn) ==
    IF ~dirOK THEN PathError("stat", fn, Errno("EACCES"))
    ELSE PathError("stat", fn, Errno("ENOENT"))

\* os.Stat(fn): the error it returns.
Stat(fn) ==
    IF ~dirOK THEN PathError("stat", fn, Errno("EACCES"))
    ELSE IF fs[fn].type = "none" THEN PathError("stat", fn, Errno("ENOENT"))
    ELSE Nil

\* unix.Mkfifo(path, mode): the error it returns ...
mkfifo(path, mode) ==
    IF ~dirOK THEN Errno("EACCES")
    ELSE IF fs[path].type # "none" THEN Errno("EEXIST")
    ELSE Nil

\* ... and the directory after it.
mkfifoFs(path, mode) ==
    IF mkfifo(path, mode) = Nil
    THEN [fs EXCEPT ![path] = [ino |-> nextIno, type |-> "fifo", mode |-> mode]]
    ELSE fs

CanRead(acc) == acc \in {O_RDONLY, O_RDWR}

CanWrite(acc) == acc \in {O_WRONLY, O_RDWR}

\* Other callers that hold the read (write) end of inode n: an open handle,
\* or an open(2) that has taken its end and sleeps until the peer arrives.
Holds(j, n) ==
    /\ call[j].h.ino = n
    /\ call[j].h.open \/ call[j].pc = "wait"

ReaderEnds(i, n) == {j \in Procs \ {i} : Holds(j, n) /\ CanRead(call[j].h.acc)}

WriterEnds(i, n) == {j \in Procs \ {i} : Holds(j, n) /\ CanWrite(call[j].h.acc)}

PeerPresent(i, n, acc) ==
    IF acc = O_RDONLY THEN WriterEnds(i, n) # {} ELSE ReaderEnds(i, n) # {}

\* os.OpenFile(fn, flag, perm) by caller i:
\*   res is "ok", "wait" (open(2) sleeps until the peer end is taken) or an
\*   errno; ent is the entry the call resolved; made tells that O_CREAT
\*   created a regular file.
OpenFile(i, fn, flag, perm) ==
    LET acc   == BitAnd(flag, O_ACCMODE)
        nonbl == BitAnd(flag, O_NONBLOCK) # 0
        creat == BitAnd(flag, O_CREAT) # 0
        e     == fs[fn]
        new   == [ino |-> nextIno, type |-> "file", mode |-> perm]
    IN  IF ~dirOK THEN [res |-> "EACCES", ent |-> NoEntry, made |-> FALSE]
        ELSE IF e.type = "none"
        THEN IF creat THEN [res |-> "ok", ent |-> new, made |-> TRUE]
             ELSE [res |-> "ENOENT", ent |-> NoEntry, made |-> FALSE]
        ELSE IF e.type # "fifo" \/ acc = O_RDWR \/ (acc = O_RDONLY /\ nonbl)
        THEN [res |-> "ok", ent |-> e, made |-> FALSE]
        ELSE IF PeerPresent(i, e.ino, acc)
        THEN [res |-> "ok", ent |-> e, made |-> FALSE]
        ELSE IF nonbl THEN [res |-> "ENXIO", ent |-> NoEntry, made |-> FALSE]
        ELSE [res |-> "wait", ent |-> e, made |-> FALSE]

\* os.Remove(path): the error it returns.
osRemove(path) ==
    IF ~dirOK THEN PathError("remove", path, Errno("EACCES"))
    ELSE IF fs[path].type = "none" THEN PathError("remove", path, Errno("ENOENT"))
    ELSE Nil

(* ------------------------------ openFifo ------------------------------ *)
\* New without O_NONBLOCK, and New without O_CREAT.
NewFlags_blocking == BitOr(O_RDONLY, O_CREAT)

NewFlags_nocreate == BitOr(O_RDONLY, O_NONBLOCK)

\* line 18: the flags of New.
NewFlags == BitOr(BitOr(O_RDONLY, O_CREAT), O_NONBLOCK)

\* Open with O_CREAT.
OpenFlags_create == BitOr(O_WRONLY, O_CREAT)

\* line 23: the flags of Open.
OpenFlags == O_WRONLY

\* Flag values of the direct calls of openFifo: the two blocking opens.
FlagChoices == { O_WRONLY, O_RDONLY }

\* line 51: the probe failed, and creation is both possible and asked for.
NeedCreate(err, flag) == IsNotExist(err) /\ BitAnd(flag, O_CREAT) # 0

\* A creation that counts "already exists" as a failure.
MkfifoFailed_strict(err) == err # Nil

\* line 52: the creation counts as failed.
MkfifoFailed(err) == err # Nil /\ ~IsExist(err)

\* line 53: the error returned for a failed creation.
CreateError(err, fn) == Wrapf(err, "error creating fifo", fn)

\* A probe error wrapped like a creation error.
ProbeError_wrapped(err, fn) == Wrapf(err, "error creating fifo", fn)

\* line 56: the error returned for a failed probe.
ProbeError(err, fn) == err

\* line 52: the mode handed to mkfifo.
MkfifoMode(perm) == BitAnd(perm, ModePerm)

\* O_CREAT left in the flags of the open.
StripCreat_kept(flag) == flag

\* line 60: the flags handed to os.OpenFile.
StripCreat(flag) == AndNot(flag, O_CREAT)

ErrnoOf(err) == IF err = Nil THEN "ok" ELSE err[Len(err)].s

\* Lines 50-58, the probe: the first step of every openFifo call.
openFifoProbe(i, fn, flag, perm, cancellable, name) ==
    LET err == Stat(fn)
        c0  == [IdleCall EXCEPT !.op = name, !.path = fn, !.flag = flag,
                                !.perm = perm, !.ctx = cancellable,
                                !.statRes = ErrnoOf(err)]
    IN  /\ call[i].pc = "idle"
        /\ call' = [call EXCEPT ![i] =
              IF err # Nil
              THEN IF NeedCreate(err, flag)
                   THEN [c0 EXCEPT !.pc = "mkfifo"]
                   ELSE [c0 EXCEPT !.pc = "done", !.err = ProbeError(err, fn)]
              ELSE [c0 EXCEPT !.pc = "open"]]
        /\ UNCHANGED << fs, dirOK, nextIno, lastRm, cerr, cres >>

\* Lines 52-54: the creation.
MkfifoStep(i) ==
    LET c    == call[i]
        mode == MkfifoMode(c.perm)
        err  == mkfifo(c.path, mode)
    IN  /\ c.pc = "mkfifo"
        /\ fs' = mkfifoFs(c.path, mode)
        /\ nextIno' = IF err = Nil THEN nextIno + 1 ELSE nextIno
        /\ call' = [call EXCEPT ![i] =
              IF MkfifoFailed(err)
              THEN [c EXCEPT !.pc = "done", !.mk = ErrnoOf(err),
                             !.err = CreateError(err, c.path)]
              ELSE [c EXCEPT !.pc = "open", !.mk = ErrnoOf(err)]]
        /\ UNCHANGED << dirOK, lastRm, cerr, cres >>

\* Lines 60-62: the open.
OpenStep(i) ==
    LET c    == call[i]
        flag == StripCreat(c.flag)
        out  == OpenFile(i, c.path, flag, 0)
        hd   == [ino |-> out.ent.ino, type |-> out.ent.type,
                 acc |-> BitAnd(flag, O_ACCMODE), open |-> out.res = "ok"]
    IN  /\ c.pc = "open"
        /\ fs' = IF out.made THEN [fs EXCEPT ![c.path] = out.ent] ELSE fs
        /\ nextIno' = IF out.made THEN nextIno + 1 ELSE nextIno
        /\ call' = [call EXCEPT ![i] =
              IF out.res = "ok"
              THEN [c EXCEPT !.pc = "done", !.opn = "ok", !.h = hd]
              ELSE IF out.res = "wait"
              THEN [c EXCEPT !.pc = "wait", !.opn = "wait", !.h = hd]
              ELSE [c EXCEPT !.pc = "done", !.opn = out.res,
                             !.err = PathError("open", c.path, Errno(out.res))]]
        /\ UNCHANGED << dirOK, lastRm, cerr, cres >>

\* Line 62, a blocking open(2) that sleeps: it returns once the peer end of
\* the FIFO it resolved is taken.  The context of the call is not consulted.
WaitStep(i) ==
    LET c == call[i]
    IN  /\ c.pc = "wait"
        /\ PeerPresent(i, c.h.ino, c.h.acc)
        /\ call' = [call EXCEPT ![i] =
              [c EXCEPT !.pc = "done", !.opn = "ok", !.h.open = TRUE]]
        /\ UNCHANGED << fs, dirOK, nextIno, lastRm, cerr, cres >>

(* --------------------------- the operations --------------------------- *)
New(i, path) == openFifoProbe(i, path, NewFlags, FifoPerm, FALSE, "New")

Open(i, path) == openFifoProbe(i, path, OpenFlags, FifoPerm, FALSE, "Open")

\* openFifo called with a context that can be cancelled.
OpenFifoCtx(i, path, flag) ==
    openFifoProbe(i, path, flag, FifoPerm, TRUE, "openFifo")

\* A Remove that leaves the entry.
RemoveFs_keep(path) == fs

\* line 28: the directory after os.Remove.
RemoveFs(path) ==
    IF osRemove(path) = Nil THEN [fs EXCEPT ![path] = NoEntry] ELSE fs

\* Remove is a single system call: it takes no caller out of the model.
\* lastRm keeps the inode it took away.
Remove(path) ==
    LET err == osRemove(path)
    IN  /\ fs' = RemoveFs(path)
        /\ lastRm' = IF err = Nil THEN [lastRm EXCEPT ![path] = fs[path].ino]
                     ELSE lastRm
        /\ UNCHANGED << dirOK, nextIno, call, cerr, cres >>

(* --------------------------- the environment -------------------------- *)
\* The caller closes the handle it was given (io.Closer of the result).
Close(i) ==
    /\ call[i].pc = "done"
    /\ call[i].h.open
    /\ call' = [call EXCEPT ![i].h.open = FALSE]
    /\ UNCHANGED << fs, dirOK, nextIno, lastRm, cerr, cres >>

\* The context handed to openFifo is cancelled while the call is pending;
\* cancelAt keeps where the call was: "blocked" when its open(2) sleeps and
\* no peer holds the other end of the FIFO.
Cancel(i) ==
    /\ call[i].ctx
    /\ call[i].cancelAt = ""
    /\ call[i].pc \in {"mkfifo", "open", "wait"}
    /\ call' = [call EXCEPT ![i].cancelAt =
          IF call[i].pc = "wait"
                /\ ~PeerPresent(i, call[i].h.ino, call[i].h.acc)
          THEN "blocked" ELSE call[i].pc]
    /\ UNCHANGED << fs, dirOK, nextIno, lastRm, cerr, cres >>

\* The permissions of the directory change.
ChmodDir ==
    /\ dirOK' = ~dirOK
    /\ UNCHANGED << fs, nextIno, call, lastRm, cerr, cres >>

Step(i) ==
    \/ \E p \in Paths : New(i, p)
    \/ \E p \in Paths : Open(i, p)
    \/ \E p \in Paths : \E f \in FlagChoices : OpenFifoCtx(i, p, f)
    \/ MkfifoStep(i)
    \/ OpenStep(i)
    \/ WaitStep(i)
    \/ Close(i)
    \/ Cancel(i)

Env ==
    \/ \E p \in Paths : Remove(p)
    \/ ChmodDir

Next == (\E i \in Procs : Step(i)) \/ Env

Spec == Init /\ [][Next]_vars

\* Calls run one after another: no step is taken while another caller is
\* between two system calls of openFifo (a caller asleep in open(2) is not).
Busy(j) == call[j].pc \in {"mkfifo", "open"}

SeqNext ==
    \/ \E i \in Procs : (\A j \in Procs \ {i} : ~Busy(j)) /\ Step(i)
    \/ (\A j \in Procs : ~Busy(j)) /\ Env

SeqSpec == Init /\ [][SeqNext]_vars

\* A caller's pending mkfifo or open system call, when it can return, does.
FairSpec ==
    Spec /\ \A i \in Procs : WF_vars(MkfifoStep(i) \/ OpenStep(i))

(* ---------------------- IsClosedErr on its inputs --------------------- *)
ErrLeaves ==
    {Errno(e) : e \in {"ENOENT", "EACCES", "EEXIST", "ENXIO"}}
        \cup {ErrClosed, << Layer("errorString", "context canceled", 0) >>}

ErrWraps ==
    {Layer("PathError", op, p) :
        op \in {"open", "read", "write", "close"}, p \in Paths}
        \cup {Layer("Wrapf", "error creating fifo", p) : p \in Paths}

RECURSIVE ErrShapes(_)
ErrShapes(d) ==
    IF d = 0 THEN ErrLeaves
    ELSE LET S == ErrShapes(d - 1)
         IN  S \cup {<< w >> \o e : w \in ErrWraps, e \in S}

ErrInputs == {Nil} \cup ErrShapes(MaxWrap)

Classify(e) ==
    /\ cerr' = e
    /\ cres' = IsClosedErr(e)
    /\ UNCHANGED << fs, dirOK, nextIno, call, lastRm >>

ClsNext == \E e \in ErrInputs : Classify(e)

ClsSpec == Init /\ [][ClsNext]_vars

(* ------------------------------ properties ---------------------------- *)
\* Caller i's call returns in this step.
Returns(i) == call[i].pc # "done" /\ call'[i].pc = "done"

\* C1: when calls run one after another, a New on a path that holds no
\* entry (in a usable directory) returns a handle and no error, and the path
\* then holds a FIFO with permission bits 0600 to which the handle is bound.
C1_NewCreatesFifo ==
    [][\A i \in Procs :
          (Returns(i) /\ call'[i].op = "New" /\ call'[i].statRes = "ENOENT")
          => LET p == call'[i].path
             IN  /\ call'[i].err = Nil
                 /\ call'[i].h.open
                 /\ fs'[p].type = "fifo"
                 /\ fs'[p].mode = 6 * 64
                 /\ call'[i].h.ino = fs'[p].ino]_vars

C1_Witness ==
    \E i \in Procs :
        /\ call[i].pc = "done" /\ call[i].op = "New"
        /\ call[i].statRes = "ENOENT" /\ call[i].mk = "ok"
        /\ call[i].err = Nil /\ call[i].h.open
        /\ fs[call[i].path].type = "fifo"
        /\ fs[call[i].path].ino = call[i].h.ino

C3_OpenNeverCreates ==
    [][\A i \in Procs :
          /\ (call'[i] # call[i] /\ call'[i].op = "Open") => fs' = fs
          /\ (call[i].pc = "idle" /\ call'[i].op = "Open" /\ dirOK
                  /\ fs[call'[i].path].type = "none")
             => /\ call'[i].pc = "done"
                /\ IsNotExist(call'[i].err)
                /\ call'[i].h = NoHandle]_vars

C3_Witness ==
    \E i \in Procs :
        /\ call[i].pc = "done" /\ call[i].op = "Open"
        /\ call[i].err = PathError("stat", call[i].path, Errno("ENOENT"))
        /\ call[i].h = NoHandle
        /\ fs[call[i].path].type = "none"

\* C4: a call whose context was cancelled while its open(2) slept with no
\* peer on the FIFO returns a cancellation error, not a handle obtained when
\* a peer appears later.
Canceled == << Layer("errorString", "context canceled", 0) >>

C4_CancelledOpenFails ==
    \A i \in Procs :
        (call[i].pc = "done" /\ call[i].cancelAt = "blocked")
        => call[i].err = Canceled

ClosedErrors ==
    {<< Layer("PathError", op, p), Layer("errorString", "file already closed", 0) >> :
        op \in {"open", "read", "write", "close"}, p \in Paths}

C6_IsClosedErr == cres <=> (cerr \in ClosedErrors)

C6_Witness ==
    /\ cres
    /\ cerr = PathError("read", 1, ErrClosed)

\* C7: when calls run one after another, a successful Remove leaves the path
\* empty, and a New that then finds it empty returns a handle and no error,
\* bound to a FIFO it made itself, whose inode is not the removed one and to
\* which no other caller's handle is bound.
C7_RemoveThenNewIsFresh ==
    [][/\ \A p \in Paths : lastRm'[p] # lastRm[p] => fs'[p] = NoEntry
       /\ \A i \in Procs :
            (Returns(i) /\ call'[i].op = "New" /\ call'[i].statRes = "ENOENT"
                /\ lastRm[call'[i].path] # 0)
            => LET p == call'[i].path
               IN  /\ call'[i].err = Nil
                   /\ call'[i].mk = "ok"
                   /\ call'[i].h.open
                   /\ call'[i].h.type = "fifo"
                   /\ call'[i].h.ino = fs'[p].ino
                   /\ fs'[p].ino # lastRm[p]
                   /\ \A j \in Procs \ {i} : call'[j].h.ino # fs'[p].ino]_vars

C7_Witness ==
    \E i \in Procs : \E j \in Procs \ {i} :
        LET p == call[i].path
        IN  /\ call[i].pc = "done" /\ call[i].op = "New"
            /\ call[i].statRes = "ENOENT" /\ call[i].err = Nil
            /\ lastRm[p] # 0
            /\ call[j].h.ino = lastRm[p] /\ call[j].h.open
            /\ call[i].h.ino = fs[p].ino
            /\ call[i].h.ino # call[j].h.ino

\* C8: of the New calls that found the path empty, while nothing has been
\* removed from it and no system call of theirs was refused access, every
\* one that has returned has a handle and no error, exactly one made the
\* FIFO, and all handles are bound to the entry the path holds.
Racers(p) ==
    {i \in Procs : /\ call[i].op = "New" /\ call[i].path = p
                   /\ call[i].statRes = "ENOENT"
                   /\ call[i].mk # "EACCES" /\ call[i].opn # "EACCES"}

Creators(p) == {i \in Procs : call[i].path = p /\ call[i].mk = "ok"}

C8_ConcurrentNew ==
    \A p \in Paths :
        lastRm[p] = 0 =>
            /\ Cardinality(Creators(p)) <= 1
            /\ \A i \in Racers(p) :
                  call[i].pc = "done" =>
                      /\ call[i].err = Nil
                      /\ call[i].mk \in {"ok", "EEXIST"}
                      /\ call[i].h.type = "fifo"
                      /\ call[i].h.ino = fs[p].ino
                      /\ Cardinality(Creators(p)) = 1

C8_Witness ==
    \E i \in Procs : \E j \in Procs \ {i} :
        /\ {i, j} \subseteq Racers(call[i].path)
        /\ lastRm[call[i].path] = 0
        /\ call[i].pc = "done" /\ call[j].pc = "done"
        /\ call[i].mk = "ok" /\ call[j].mk = "EEXIST"
        /\ call[i].err = Nil /\ call[j].err = Nil
        /\ call[i].h.ino = call[j].h.ino

\* C9: a New call never sleeps in open(2) waiting for a peer: while pending it
\* is before its mkfifo or its open, and its open step returns, with a handle
\* whenever the path holds an entry in a searchable directory; every New call
\* returns, whatever the other callers do; an Open call returns a handle on
\* a FIFO only in a state where another caller holds a read end of that FIFO
\* (an open handle, or an open(2) that has taken the read end and sleeps).
C9_NewNeverWaits ==
    /\ [][\A i \in Procs :
            /\ (call[i].op = "New" /\ call[i].pc # "done")
               => call[i].pc \in {"mkfifo", "open"}
            /\ (call[i].op = "New" /\ call[i].pc = "open" /\ call'[i] # call[i])
               => /\ call'[i].pc = "done"
                  /\ (dirOK /\ fs[call[i].path].type # "none")
                     => (call'[i].err = Nil /\ call'[i].h.open)
            /\ (Returns(i) /\ call'[i].op = "Open" /\ call'[i].err = Nil
                    /\ call'[i].h.type = "fifo")
               => ReaderEnds(i, call'[i].h.ino) # {}]_vars
    /\ \A i \in Procs : (call[i].op = "New") ~> (call[i].pc = "done")

C9_Witness ==
    \E i \in Procs : \E j \in Procs \ {i} :
        /\ call[i].op = "New" /\ call[i].pc = "done" /\ call[i].h.open
        /\ call[i].h.type = "fifo"
        /\ call[j].op = "Open" /\ call[j].pc = "done" /\ call[j].opn = "ok"
        /\ call[j].err = Nil /\ call[j].h.open
        /\ call[j].h.ino = call[i].h.ino

\* C10: the open step of a New call never changes the directory: when the
\* path has become empty it returns the not-exists error of open, unwrapped,
\* and no handle, and when it fails the FIFO the call made stays in place.
C10_OpenStepNoRetryNoRollback ==
    [][\A i \in Procs :
          (call[i].op = "New" /\ call[i].pc = "open" /\ call'[i] # call[i])
          => LET p == call[i].path
             IN  /\ fs' = fs
                 /\ (dirOK /\ fs[p].type = "none")
                    => /\ call'[i].pc = "done"
                       /\ call'[i].err = PathError("open", p, Errno("ENOENT"))
                       /\ call'[i].h = NoHandle]_vars

C10_Witness ==
    \E i \in Procs :
        /\ call[i].op = "New" /\ call[i].pc = "done"
        /\ call[i].mk = "ok"
        /\ call[i].err = PathError("open", call[i].path, Errno("ENOENT"))
        /\ fs[call[i].path].type = "none"

=============================================================================
